---------------------------- MODULE Spec2Model ----------------------------
(***************************************************************************)
(* GantryMQ: the RPC broker and admission-control layer.                   *)
(*                                                                         *)
(* Server side (src/src/gmqserver/server.py): RpcServer.callback handles   *)
(* the control messages Connect / Release on exclusive_queue and keeps     *)
(* `clients` (the active session) and `queued_clients` (the wait queue);   *)
(* on_request_command / on_request_data dispatch the requests of one       *)
(* subsystem (DRSServer.py: drs_queue, drs_data).                          *)
(*                                                                         *)
(* Client side (src/src/gmqclient/client.py): RpcClient.send_request,      *)
(* call, release_connection, signal_handler, on_response; every client     *)
(* owns one private reply queue (callback_queue), whose name is also its   *)
(* identity.                                                               *)
(***************************************************************************)
EXTENDS Integers, Sequences, FiniteSets, TLC

\* ----------------------------------------------------------------- bounds
\* Total number of messages all clients together may publish (every publish
\* draws a fresh correlation identifier).
MaxSends == 5

\* What a call() counts against MaxSends (a control message counts 1).
CallCost == 2

\* Total number of faults in a run: interrupts (SIGINT) of a client and
\* transport failures while a Release is sent.
MaxFaults == 1

\* The client identities (names of the private reply queues).
Ids == {"A", "B", "C"}

\* ------------------------------------------------------ values of the code
\* Python's None, as a correlation identifier and as a response slot.
NoCorr == 0
None == "None"

\* The command names clients use, and the two registries of the subsystem.
CommandNames == {"set-rate", "get-rate"}
rpc_commands == {"set-rate"}
data_methods == {"get-rate"}

\* The argument payloads clients use (opaque to the core).
ArgValues == {"{\"x\": 1000}"}

\* What a registered handler may do: return a plain value, return something
\* invocable, or raise.
FunctionRef == "<function>"
HandlerReturns == {"1000", FunctionRef}
HandlerOutcomes == HandlerReturns \cup {"raise"}

callable(v) == v = FunctionRef

\* json.dumps of a response string: the text in double quotes.
JsonDumps(s) == "\"" \o s \o "\""

\* json.dumps of {"command": c, "args": a} as call() builds it.
JsonDumpsRequest(req) ==
    "{\"command\": \"" \o req.command \o "\", \"args\": " \o req.args \o "}"

Requests == [command : CommandNames, args : ArgValues]

\* json.loads of a request body: the request whose encoding the body is.
JsonLoads(body) == CHOOSE req \in Requests : JsonDumpsRequest(req) = body

\* A message with its transport-level properties.
Msg(to, k, b) == [reply_to |-> to, correlation_id |-> k, body |-> b]

\* What a handler does in one step, in order: publishes, handler
\* invocations, the acknowledgment.
Publish(to, k, b) == [type |-> "publish", to |-> to, corr |-> k, body |-> b]
Invoke(cmd, args) == [type |-> "invoke", to |-> cmd, corr |-> NoCorr, body |-> args]
Ack == [type |-> "ack", to |-> "", corr |-> NoCorr, body |-> ""]
Return(v) == [type |-> "return", to |-> "", corr |-> NoCorr, body |-> v]

VARIABLES
    clients,          \* RpcServer.clients: the identities holding the session
    queued_clients,   \* RpcServer.queued_clients: the wait queue
    running,          \* the server's consume loop is alive
    exclusive_queue,  \* control messages in flight to the server
    drs_queue,        \* command requests in flight to the subsystem
    drs_data,         \* data requests in flight to the subsystem
    callback_queue,   \* per client: messages in flight on its reply queue
    corr_id,          \* per client: RpcClient.corr_id
    response,         \* per client: RpcClient.response
    pc,               \* per client: where the client is blocked, or idle
    ret,              \* per client: what its last finished operation gave
    uuid,             \* per client, what its draws of uuid4 count so far
    faults,           \* the number of interrupts and transport failures so far
    log,              \* per client: the last line release_connection printed
    promoted,         \* the identity the last control step popped, or ""
    last              \* the last server step: its message, the state before
                      \* it and what it did

vars == <<clients, queued_clients, running, exclusive_queue, drs_queue,
          drs_data, callback_queue, corr_id, response, pc, ret, uuid,
          faults, log, promoted, last>>

serverVars == <<clients, queued_clients, running, promoted, last>>
clientVars == <<corr_id, response, pc, ret, uuid, faults, log>>

NoMsg == Msg("", NoCorr, "")

Step(op, m, ev, prev) ==
    [op |-> op, msg |-> m, clients |-> clients, queued |-> queued_clients,
     events |-> ev, prev_promoted |-> prev]

Init ==
    /\ clients = {}
    /\ queued_clients = <<>>
    /\ running = TRUE
    /\ exclusive_queue = <<>>
    /\ drs_queue = <<>>
    /\ drs_data = <<>>
    /\ callback_queue = [c \in Ids |-> <<>>]
    /\ corr_id = [c \in Ids |-> NoCorr]
    /\ response = [c \in Ids |-> None]
    /\ pc = [c \in Ids |-> "idle"]
    /\ ret = [c \in Ids |-> None]
    /\ uuid = [c \in Ids |-> 0]
    /\ faults = 0
    /\ log = [c \in Ids |-> ""]
    /\ promoted = ""
    /\ last = Step("none", NoMsg, <<>>, "")


\* ------------------------------------------------- the admission controller
\* The result of a control step: the new session and wait queue, what was
\* published, and the identity popped from the wait queue ("" if none).
Outcome(cl, q, ev, p) ==
    [clients |-> cl, queued |-> q, events |-> ev, promoted |-> p]

\* GrantConnect with the reply published without the request's correlation
\* identifier.
GrantConnect_NoCorr(cl, q, r, k) ==
    Outcome(cl \cup {r}, q, <<Publish(r, NoCorr, "Connected")>>, "")

\* server.py 32-42: nobody holds the session, the caller gets it.
GrantConnect(cl, q, r, k) ==
    Outcome(cl \cup {r}, q, <<Publish(r, k, "Connected")>>, "")

\* AlreadyConnected with the caller queued as well.
AlreadyConnected_Requeue(cl, q, r, k) ==
    Outcome(cl, Append(q, r), <<Publish(r, k, "Already Connected")>>, "")

\* server.py 43-53: the holder connects again.
AlreadyConnected(cl, q, r, k) ==
    Outcome(cl, q, <<Publish(r, k, "Already Connected")>>, "")

\* ParkConnect with the commented-out "Queued" reply sent.
ParkConnect_Queued(cl, q, r, k) ==
    Outcome(cl, Append(q, r), <<Publish(r, k, "Queued")>>, "")

\* server.py 54-64: somebody else holds the session, the caller is parked
\* (the "Queued" reply is commented out).
ParkConnect(cl, q, r, k) ==
    Outcome(cl, Append(q, r), <<>>, "")

\* OnConnect without the test that nobody holds the session.
OnConnect_NoEmptyCheck(cl, q, r, k) ==
    IF r \in cl THEN AlreadyConnected(cl, q, r, k)
    ELSE GrantConnect(cl, q, r, k)

\* server.py 31-64: the three branches of Connect.
OnConnect(cl, q, r, k) ==
    IF cl = {} THEN GrantConnect(cl, q, r, k)
    ELSE IF r \in cl THEN AlreadyConnected(cl, q, r, k)
    ELSE ParkConnect(cl, q, r, k)

\* server.py 77-84: pop the head of the wait queue and publish "Connected"
\* to it, with no correlation identifier; `clients` is not touched.  The
\* walrus test skips the publish for a falsy (empty) identity.
next_in_queue(cl, q) ==
    IF Len(q) > 0
    THEN IF Head(q) # ""
         THEN Outcome(cl, Tail(q), <<Publish(Head(q), NoCorr, "Connected")>>,
                      Head(q))
         ELSE Outcome(cl, Tail(q), <<>>, "")
    ELSE Outcome(cl, q, <<>>, "")

\* OnRelease with a waiting identity's Release taking it out of the wait
\* queue.
OnRelease_LeaveQueue(cl, q, r) ==
    IF r \in cl
    THEN next_in_queue(cl \ {r}, q)
    ELSE Outcome(cl, SelectSeq(q, LAMBDA x : x # r), <<>>, "")

\* OnRelease without the test that the caller holds the session.
OnRelease_AnyCaller(cl, q, r) == next_in_queue(cl \ {r}, q)

\* server.py 65-73: Release.
OnRelease(cl, q, r) ==
    IF r \in cl
    THEN next_in_queue(cl \ {r}, q)
    ELSE Outcome(cl, q, <<>>, "")

\* server.py 30-75: the body of callback before the acknowledgment.
OnControl(cl, q, m) ==
    IF m.body = "Connect" THEN OnConnect(cl, q, m.reply_to, m.correlation_id)
    ELSE IF m.body = "Release" THEN OnRelease(cl, q, m.reply_to)
    ELSE Outcome(cl, q, <<>>, "")

\* ------------------------------------------------------------ the transport
Publishes(ev) == SelectSeq(ev, LAMBDA e : e.type = "publish")

PublishesTo(ev, c) ==
    SelectSeq(ev, LAMBDA e : e.type = "publish" /\ e.to = c)

RECURSIVE AsMsgs(_)
AsMsgs(ev) ==
    IF ev = <<>> THEN <<>>
    ELSE <<Msg(Head(ev).to, Head(ev).corr, Head(ev).body)>> \o AsMsgs(Tail(ev))

\* basic_publish on the default exchange: the message goes to the queue
\* named by the routing key; a reply queue is exclusive and auto-delete
\* (client.py 25), so a message for a client that has exited is dropped.
Delivered(ev) ==
    [c \in Ids |->
        IF pc[c] = "exited" THEN <<>>
        ELSE callback_queue[c] \o AsMsgs(PublishesTo(ev, c))]

\* server.py 30-75: RpcServer.callback on the next control message.
callback ==
    /\ running
    /\ exclusive_queue # <<>>
    /\ LET m == Head(exclusive_queue)
           o == OnControl(clients, queued_clients, m)
       IN /\ clients' = o.clients
          /\ queued_clients' = o.queued
          /\ promoted' = o.promoted
          /\ callback_queue' = Delivered(o.events)
          /\ last' = Step("callback", m, o.events \o <<Ack>>, promoted)
    /\ exclusive_queue' = Tail(exclusive_queue)
    /\ UNCHANGED <<running, drs_queue, drs_data, clientVars>>

\* ------------------------------------------------------ the request dispatcher
\* What a dispatch does before the acknowledgment, and whether an exception
\* left the handler (then nothing more is published or acknowledged).
Dispatched(ev, raised) == [events |-> ev, raised |-> raised]

\* server.py 111 / 189: the normalisation of the handler's return value.
Normalize(v) == IF callable(v) THEN v ELSE "Command executed"

\* Reply with the response published without the request's correlation
\* identifier.
Reply_NoCorr(m, ev, v) ==
    IF callable(v) THEN Dispatched(ev, TRUE)
    ELSE Dispatched(Append(ev, Publish(m.reply_to, NoCorr, JsonDumps(v))),
                    FALSE)

\* server.py 115-120 / 193-198: json.dumps raises TypeError on a value that
\* is not serialisable; otherwise the response is published to the reply
\* address under the request's correlation identifier.
Reply(m, ev, v) ==
    IF callable(v) THEN Dispatched(ev, TRUE)
    ELSE Dispatched(
            Append(ev, Publish(m.reply_to, m.correlation_id, JsonDumps(v))),
            FALSE)

\* server.py 104-120 / 182-198: look the command up in the bound registry,
\* run the handler (h is what the handler does) and reply.
Lookup(registry, m, h) ==
    LET request == JsonLoads(m.body)
        command == request.command
        args == request.args
    IN IF command \in registry
       THEN IF h = "raise"
            THEN Dispatched(<<Invoke(command, args)>>, TRUE)
            ELSE Reply(m, <<Invoke(command, args), Return(h)>>, Normalize(h))
       ELSE Reply(m, <<>>, "Unknown command")

\* server.py 122-129: the reply to a request of a non-holder, a raw string.
Unauthorized(m) ==
    Dispatched(
        <<Publish(m.reply_to, m.correlation_id, "Unauthorized Client")>>,
        FALSE)

\* CommandDispatch with one registry shared by the commands and the data
\* queue.
CommandDispatch_SharedRegistry(cl, m, h) ==
    IF m.reply_to \in cl
    THEN Lookup(rpc_commands \cup data_methods, m, h)
    ELSE Unauthorized(m)

\* server.py 101-129: on_request_command before the acknowledgment.
CommandDispatch(cl, m, h) ==
    IF m.reply_to \in cl THEN Lookup(rpc_commands, m, h) ELSE Unauthorized(m)

\* server.py 180-198: on_request_data before the acknowledgment; the
\* session is not consulted.
DataDispatch(cl, m, h) == Lookup(data_methods, m, h)

\* Finish without the acknowledgment.
Finish_NoAck(d) == d.events

\* The acknowledgment (server.py 131 / 200) is reached unless an exception
\* left the handler.
Finish(d) == IF d.raised THEN d.events ELSE Append(d.events, Ack)

\* server.py 101-131: RpcServer.on_request_command on the next request of
\* the commands queue.  An exception ends the consume loop and leaves the
\* message unacknowledged.
on_request_command ==
    /\ running
    /\ drs_queue # <<>>
    /\ \E h \in HandlerOutcomes :
         LET m == Head(drs_queue)
             d == CommandDispatch(clients, m, h)
         IN /\ callback_queue' = Delivered(d.events)
            /\ last' = Step("on_request_command", m, Finish(d), promoted)
            /\ running' = ~d.raised
            /\ drs_queue' = IF d.raised THEN drs_queue ELSE Tail(drs_queue)
    /\ UNCHANGED <<clients, queued_clients, promoted, exclusive_queue,
                   drs_data, clientVars>>

\* server.py 180-200: RpcServer.on_request_data on the next request of the
\* data queue.
on_request_data ==
    /\ running
    /\ drs_data # <<>>
    /\ \E h \in HandlerOutcomes :
         LET m == Head(drs_data)
             d == DataDispatch(clients, m, h)
         IN /\ callback_queue' = Delivered(d.events)
            /\ last' = Step("on_request_data", m, Finish(d), promoted)
            /\ running' = ~d.raised
            /\ drs_data' = IF d.raised THEN drs_data ELSE Tail(drs_data)
    /\ UNCHANGED <<clients, queued_clients, promoted, exclusive_queue,
                   drs_queue, clientVars>>

\* ------------------------------------------------------------ the client stub
\* Where a client is blocked in process_data_events.
Waiting == {"send_request", "release_connection", "signal_handler", "call"}

\* client.py 62, 83: str(uuid.uuid4()), a value no other draw yields: it
\* is made of the number of the drawing client and the count of its draws.
Ordinal == [c \in Ids |-> CASE c = "A" -> 1 [] c = "B" -> 2 [] c = "C" -> 3]
uuid4(c) == (MaxSends + 1) * Ordinal[c] + uuid[c] + 1

\* What all clients together have drawn against MaxSends.
Drawn == uuid["A"] + uuid["B"] + uuid["C"]

\* One more fault happens.
Fault ==
    /\ faults < MaxFaults
    /\ faults' = faults + 1

\* client.py 61-70: reset the result slot, draw a fresh correlation
\* identifier and publish the control message to exclusive_queue.
SendControl(c, request, where) ==
    /\ Drawn + 1 <= MaxSends
    /\ response' = [response EXCEPT ![c] = None]
    /\ corr_id' = [corr_id EXCEPT ![c] = uuid4(c)]
    /\ uuid' = [uuid EXCEPT ![c] = @ + 1]
    /\ exclusive_queue' = Append(exclusive_queue, Msg(c, uuid4(c), request))
    /\ pc' = [pc EXCEPT ![c] = where]
    /\ UNCHANGED <<serverVars, drs_queue, drs_data, callback_queue, ret,
                   log>>

\* client.py 60-75: send_request("Connect"), up to the wait.
send_request(c) ==
    /\ pc[c] = "idle"
    /\ SendControl(c, "Connect", "send_request")
    /\ UNCHANGED faults

\* client.py 104-106: release_connection, up to the wait in send_request.
release_connection(c) ==
    /\ pc[c] = "idle"
    /\ SendControl(c, "Release", "release_connection")
    /\ UNCHANGED faults

\* client.py 107 / 109-111: the lines release_connection prints.
ReleasedLine == "[x] Connection Released."
FailedLine == "Failed to send 'Release' message."

\* ReleaseCaught without the except clause.
ReleaseCaught_Uncaught(exc) == exc

\* client.py 105-111: what release_connection gives its caller when
\* send_request raises exc: an AMQPError is caught and logged.
ReleaseCaught(exc) == IF exc = "AMQPError" THEN None ELSE exc

\* client.py 61-70, 105-111: the transport fails in basic_publish of the
\* Release message: the result slot is reset and a correlation identifier
\* drawn, nothing is published, and release_connection handles the error.
ReleaseFails(c, where) ==
    /\ Drawn + 1 <= MaxSends
    /\ response' = [response EXCEPT ![c] = None]
    /\ corr_id' = [corr_id EXCEPT ![c] = uuid4(c)]
    /\ uuid' = [uuid EXCEPT ![c] = @ + 1]
    /\ ret' = [ret EXCEPT ![c] = ReleaseCaught("AMQPError")]
    /\ log' = [log EXCEPT ![c] =
           IF ReleaseCaught("AMQPError") = None THEN FailedLine ELSE log[c]]
    /\ pc' = [pc EXCEPT ![c] = where]
    /\ Fault
    /\ UNCHANGED <<serverVars, exclusive_queue, drs_queue, drs_data>>

\* client.py 104-111: release_connection on a failing transport.
release_connection_fails(c) ==
    /\ pc[c] = "idle"
    /\ ReleaseFails(c, "idle")
    /\ UNCHANGED callback_queue

\* client.py 113-116: signal_handler on a failing transport; the process
\* exits and its reply queue goes with it.
signal_handler_fails(c) ==
    /\ pc[c] \in Waiting \cup {"idle"}
    /\ pc[c] # "signal_handler"
    /\ ReleaseFails(c, "exited")
    /\ callback_queue' = [callback_queue EXCEPT ![c] = <<>>]

\* client.py 113-115: an interrupt (SIGINT) while the client waits (or idles)
\* runs release_connection and then exits.
signal_handler(c) ==
    /\ pc[c] \in Waiting \cup {"idle"}
    /\ pc[c] # "signal_handler"
    /\ SendControl(c, "Release", "signal_handler")
    /\ Fault

\* client.py 75 / 100, 41-44: the handler for SIGINT is not registered, so
\* an interrupt during the blocking wait leaves send_request / call /
\* release_connection as a KeyboardInterrupt (it is not an AMQPError) and
\* the caller goes on with the stub as it is.
KeyboardInterrupt(c) ==
    /\ pc[c] \in Waiting \ {"signal_handler"}
    /\ Fault
    /\ pc' = [pc EXCEPT ![c] = "idle"]
    /\ ret' = [ret EXCEPT ![c] = "KeyboardInterrupt"]
    /\ UNCHANGED <<serverVars, exclusive_queue, drs_queue, drs_data,
                   callback_queue, corr_id, response, uuid, log>>

\* The exchange / routing key pairs that reach a queue of the subsystem.
Routes == {"drs_queue", "drs_data"}

\* client.py 81-97: call, up to the wait.
call(c, command, args, routing_key) ==
    /\ pc[c] = "idle"
    /\ Drawn + CallCost <= MaxSends
    /\ response' = [response EXCEPT ![c] = None]
    /\ corr_id' = [corr_id EXCEPT ![c] = uuid4(c)]
    /\ uuid' = [uuid EXCEPT ![c] = @ + CallCost]
    /\ LET m == Msg(c, uuid4(c),
                    JsonDumpsRequest([command |-> command, args |-> args]))
       IN IF routing_key = "drs_queue"
          THEN /\ drs_queue' = Append(drs_queue, m)
               /\ UNCHANGED drs_data
          ELSE /\ drs_data' = Append(drs_data, m)
               /\ UNCHANGED drs_queue
    /\ pc' = [pc EXCEPT ![c] = "call"]
    /\ UNCHANGED <<serverVars, exclusive_queue, callback_queue, ret,
                   faults, log>>

\* on_response without the test of the correlation identifier.
on_response_AnyCorr(k, resp, m) == m.body

\* client.py 55-58: on_response keeps a body only under the pending
\* correlation identifier.
on_response(k, resp, m) == IF k = m.correlation_id THEN m.body ELSE resp

RECURSIVE Pump(_, _, _)
Pump(k, resp, msgs) ==
    IF msgs = <<>> THEN resp
    ELSE Pump(k, on_response(k, resp, Head(msgs)), Tail(msgs))

\* client.py 75-78, 100-102, 107, 116: process_data_events(time_limit=None)
\* returns once the messages that have arrived (at least one) have been
\* handed to on_response; then the blocked operation goes on: send_request
\* returns the result slot, release_connection returns, signal_handler
\* exits, and call reaches self.handle_response, which RpcClient does not
\* define.
process_data_events(c) ==
    /\ pc[c] \in Waiting
    /\ \E n \in 1..Len(callback_queue[c]) :
         LET got == SubSeq(callback_queue[c], 1, n)
             rest == SubSeq(callback_queue[c], n + 1, Len(callback_queue[c]))
             r == Pump(corr_id[c], response[c], got)
         IN /\ response' = [response EXCEPT ![c] = r]
            /\ callback_queue' = [callback_queue EXCEPT ![c] =
                   IF pc[c] = "signal_handler" THEN <<>> ELSE rest]
            /\ ret' = [ret EXCEPT ![c] =
                   CASE pc[c] = "send_request" -> r
                     [] pc[c] = "call" -> "AttributeError"
                     [] OTHER -> None]
            /\ pc' = [pc EXCEPT ![c] =
                   IF pc[c] = "signal_handler" THEN "exited" ELSE "idle"]
            /\ log' = [log EXCEPT ![c] =
                   IF pc[c] \in {"release_connection", "signal_handler"}
                   THEN ReleasedLine ELSE log[c]]
    /\ UNCHANGED <<serverVars, exclusive_queue, drs_queue, drs_data,
                   corr_id, uuid, faults>>

\* ---------------------------------------------------------- the specification
Next ==
    \/ callback
    \/ on_request_command
    \/ on_request_data
    \/ \E c \in Ids : send_request(c)
    \/ \E c \in Ids : release_connection(c)
    \/ \E c \in Ids : signal_handler(c)
    \/ \E c \in Ids, command \in CommandNames, args \in ArgValues,
          routing_key \in Routes : call(c, command, args, routing_key)
    \/ \E c \in Ids : process_data_events(c)
    \/ \E c \in Ids : KeyboardInterrupt(c)
    \/ \E c \in Ids : release_connection_fails(c)
    \/ \E c \in Ids : signal_handler_fails(c)

Spec == Init /\ [][Next]_vars

TypeOK ==
    /\ clients \subseteq Ids
    /\ queued_clients \in Seq(Ids)
    /\ uuid \in [Ids -> 0..MaxSends]

\* ------------------------------------------------------------ the properties
\* The last server step was callback on a control message with body b.
Control(b) == last.op = "callback" /\ last.msg.body = b

\* The last server step was a dispatch of a command or data request.
Request == last.op \in {"on_request_command", "on_request_data"}

\* The identity and correlation identifier of the message of the last step.
Caller == last.msg.reply_to
CallerCorr == last.msg.correlation_id

\* The handler invocations of the last step.
Invocations == SelectSeq(last.events, LAMBDA e : e.type = "invoke")

\* The registry the last dispatch was bound to.
BoundRegistry ==
    IF last.op = "on_request_command" THEN rpc_commands ELSE data_methods

\* C1 (mutual exclusion): in every reachable state at most one identity
\* holds the active session.
C1_MutualExclusion == Cardinality(clients) <= 1

\* A Connect of a second identity has been processed while the first one
\* held the session.
C1_Witness ==
    /\ Control("Connect")
    /\ last.clients # {}
    /\ Caller \notin last.clients
    /\ Cardinality(clients) = 1

\* C2 (authorization gate, as claimed): a command or data request of an
\* identity that does not hold the session is answered "Unauthorized
\* Client", invokes no handler and leaves session and wait queue alone.
C2_AuthorizationGate ==
    (Request /\ Caller \notin last.clients) =>
        /\ Publishes(last.events) =
               <<Publish(Caller, CallerCorr, "Unauthorized Client")>>
        /\ Invocations = <<>>
        /\ clients = last.clients
        /\ queued_clients = last.queued

\* C3 (release with promotion, as claimed): after a Release of the holder
\* the former head of the wait queue has left the queue and holds the
\* session; with an empty wait queue the session is empty.
C3_ReleasePromotes ==
    (Control("Release") /\ Caller \in last.clients) =>
        IF last.queued # <<>>
        THEN /\ queued_clients = Tail(last.queued)
             /\ clients = {Head(last.queued)}
        ELSE clients = {}

\* C4 (FIFO fairness, as claimed): a Release of the holder, and the next
\* Release sent by the identity that was just promoted, each promote the
\* head of the wait queue.
C4_FifoPromotion ==
    (/\ Control("Release")
     /\ last.queued # <<>>
     /\ (Caller \in last.clients \/ Caller = last.prev_promoted)) =>
        /\ promoted = Head(last.queued)
        /\ queued_clients = Tail(last.queued)
        /\ Publishes(last.events) =
               <<Publish(Head(last.queued), NoCorr, "Connected")>>

\* C5 (connect with no active session): a Connect processed while nobody
\* holds the session makes the caller the holder, publishes exactly one
\* "Connected" to the caller under the request's correlation identifier,
\* and leaves the wait queue unchanged.
C5_ConnectGranted ==
    (Control("Connect") /\ last.clients = {}) =>
        /\ clients = {Caller}
        /\ Publishes(last.events) =
               <<Publish(Caller, CallerCorr, "Connected")>>
        /\ queued_clients = last.queued

C5_Witness ==
    /\ Control("Connect")
    /\ last.clients = {}
    /\ Caller \in clients
    /\ CallerCorr # NoCorr

\* C6 (idempotent reconnect): a Connect of the holder is answered "Already
\* Connected"; session and wait queue do not change.
C6_IdempotentReconnect ==
    (Control("Connect") /\ Caller \in last.clients) =>
        /\ Len(Publishes(last.events)) = 1
        /\ Publishes(last.events)[1].to = Caller
        /\ Publishes(last.events)[1].body = "Already Connected"
        /\ clients = last.clients
        /\ queued_clients = last.queued

\* The holder has connected again while somebody was waiting.
C6_Witness ==
    /\ Control("Connect")
    /\ Caller \in last.clients
    /\ last.queued # <<>>

\* C7 (parked connect): a Connect of another identity while the session is
\* held appends the caller at the tail of the wait queue, leaves the
\* session unchanged and publishes nothing to the caller.
C7_ParkedConnect ==
    (Control("Connect") /\ last.clients # {} /\ Caller \notin last.clients) =>
        /\ queued_clients = Append(last.queued, Caller)
        /\ clients = last.clients
        /\ PublishesTo(last.events, Caller) = <<>>

\* A second waiter has been parked behind a first one.
C7_Witness ==
    /\ Control("Connect")
    /\ last.clients # {}
    /\ Caller \notin last.clients
    /\ Len(queued_clients) = 2
    /\ queued_clients[2] = Caller

\* C8 (release by a non-holder): a Release of an identity that does not
\* hold the session changes neither session nor wait queue, publishes
\* nothing, and is acknowledged.
C8_ReleaseByNonHolder ==
    (Control("Release") /\ Caller \notin last.clients) =>
        /\ clients = last.clients
        /\ queued_clients = last.queued
        /\ last.events = <<Ack>>

\* A waiting identity has sent Release while another identity held the
\* session.
C8_Witness ==
    /\ Control("Release")
    /\ last.clients # {}
    /\ Caller \notin last.clients
    /\ \E i \in 1..Len(last.queued) : last.queued[i] = Caller

\* C9 (release is answered, as claimed): the holder's Release is answered
\* "Released" on the releasing identity's reply address.
C9_ReleaseAnswered ==
    (Control("Release") /\ Caller \in last.clients) =>
        \E i \in 1..Len(last.events) :
            /\ last.events[i].type = "publish"
            /\ last.events[i].to = Caller
            /\ last.events[i].body = "Released"

\* C10 (unknown command): a request of the holder whose command is not in
\* the bound registry is answered "Unknown command"; no handler runs and
\* session and wait queue do not change.
C10_UnknownCommand ==
    (/\ Request
     /\ Caller \in last.clients
     /\ JsonLoads(last.msg.body).command \notin BoundRegistry) =>
        /\ Publishes(last.events) =
               <<Publish(Caller, CallerCorr, JsonDumps("Unknown command"))>>
        /\ Invocations = <<>>
        /\ clients = last.clients
        /\ queued_clients = last.queued

\* The holder has sent a command the commands registry does not know.
C10_Witness ==
    /\ last.op = "on_request_command"
    /\ Caller \in last.clients
    /\ JsonLoads(last.msg.body).command \notin rpc_commands
    /\ running

\* The request of the last dispatch, and whether its sender held the session.
LastRequest == JsonLoads(last.msg.body)
Authorized == Caller \in last.clients

\* What the handler returned in the last step (if it returned).
Returns == SelectSeq(last.events, LAMBDA e : e.type = "return")

\* The acknowledgments of the last step.
Acks == SelectSeq(last.events, LAMBDA e : e.type = "ack")

\* C11 (handler result normalization, as claimed): for a registered command
\* of the holder the handler runs exactly once with the request's args and
\* the published response is its return value, or "Command executed" when
\* that value is invocable.
C11_ResultNormalized ==
    (/\ Request
     /\ Authorized
     /\ LastRequest.command \in BoundRegistry
     /\ Returns # <<>>) =>
        /\ Invocations = <<Invoke(LastRequest.command, LastRequest.args)>>
        /\ Publishes(last.events) =
               <<Publish(Caller, CallerCorr,
                         JsonDumps(IF callable(Returns[1].body)
                                   THEN "Command executed"
                                   ELSE Returns[1].body))>>

\* The number of messages on a reply queue that carry identifier k.
Tagged(q, k) ==
    Len(SelectSeq(q, LAMBDA m : m.correlation_id = k))

\* At most one response tagged with a client's pending identifier exists:
\* on its reply queue, or already in its result slot.
AtMostOneResponse ==
    \A c \in Ids :
        corr_id[c] # NoCorr =>
            Tagged(callback_queue[c], corr_id[c])
                + (IF response[c] # None THEN 1 ELSE 0) <= 1

\* A result slot is filled only with the body of a message on the client's
\* reply queue that carries the pending identifier.
SlotFilledByMatch ==
    \A c \in Ids :
        (response'[c] # response[c] /\ response'[c] # None) =>
            /\ corr_id'[c] = corr_id[c]
            /\ \E i \in 1..Len(callback_queue[c]) :
                   /\ callback_queue[c][i].correlation_id = corr_id[c]
                   /\ callback_queue[c][i].body = response'[c]

C13_BlocksUntilMatch ==
    [][\A c \in Ids :
          (pc[c] \in Waiting /\ pc'[c] \notin Waiting /\ faults' = faults) =>
              response'[c] # None]_vars

\* C14 (call returns the response, as claimed): a call that has stored the
\* server's reply returns that reply to its caller.
C14_CallReturns ==
    [][\A c \in Ids :
          (pc[c] = "call" /\ pc'[c] = "idle" /\ response'[c] # None) =>
              ret'[c] = response'[c]]_vars

\* A dispatch ran to its end: it published and then acknowledged.
Completed(ev) ==
    /\ Len(ev) >= 2
    /\ ev[Len(ev)] = Ack
    /\ ev[Len(ev) - 1].type = "publish"

\* While the consume loop is alive the previous dispatch has published its
\* response and acknowledged its message.
PreviousCompleted == (Request /\ running) => Completed(last.events)

\* A dispatch takes the oldest request of its queue, and removes it unless
\* an exception ended the consume loop; after that no dispatch starts.
OldestFirst ==
    /\ (last'.op = "on_request_command" /\ last' # last) =>
           /\ running
           /\ drs_queue # <<>>
           /\ last'.msg = Head(drs_queue)
           /\ running' => drs_queue' = Tail(drs_queue)
    /\ (last'.op = "on_request_data" /\ last' # last) =>
           /\ running
           /\ drs_data # <<>>
           /\ last'.msg = Head(drs_data)
           /\ running' => drs_data' = Tail(drs_data)

\* C15 (serialized dispatch): the requests of a subsystem queue are
\* processed one at a time in arrival order, and a dispatch starts only
\* after the previous one has published its response and acknowledged.
C15_Serialized == []PreviousCompleted /\ [][OldestFirst]_vars

\* Two calls of two clients are outstanding on the data queue: the handler
\* has run for the first, the second is still queued.
C15_Witness ==
    /\ last.op = "on_request_data"
    /\ running
    /\ Invocations # <<>>
    /\ drs_data # <<>>
    /\ pc[Caller] = "call"
    /\ pc[Head(drs_data).reply_to] = "call"
    /\ Head(drs_data).reply_to # Caller

\* C16 (reply then acknowledge): a dispatch that finishes publishes exactly
\* one response, to the request's reply address under the request's
\* correlation identifier, acknowledges exactly once, and publishes before
\* it acknowledges.
C16_ReplyThenAck ==
    (Request /\ running) =>
        /\ Publishes(last.events) # <<>>
        /\ Len(Publishes(last.events)) = 1
        /\ Publishes(last.events)[1].to = Caller
        /\ Publishes(last.events)[1].corr = CallerCorr
        /\ Len(Acks) = 1
        /\ \E i, j \in 1..Len(last.events) :
               /\ i < j
               /\ last.events[i].type = "publish"
               /\ last.events[j].type = "ack"

\* A command of the holder has been executed, answered and acknowledged.
C16_Witness ==
    /\ last.op = "on_request_command"
    /\ running
    /\ Authorized
    /\ Invocations # <<>>

\* C17 (wait queue without duplicates, as claimed): no identity occurs
\* twice in the wait queue.
C17_NoDuplicates ==
    \A i, j \in 1..Len(queued_clients) :
        i # j => queued_clients[i] # queued_clients[j]

\* C18 (session and queue disjoint, as claimed): the holder of the session
\* is not in the wait queue.
C18_SessionQueueDisjoint ==
    \A i \in 1..Len(queued_clients) : queued_clients[i] \notin clients

\* C19 (failure responses are JSON values, as claimed): the unauthorized
\* and the unknown-command reply are the JSON encoding of the literal, and
\* no exception leaves the handler.
C19_FailureJson ==
    /\ (Request /\ last.op = "on_request_command" /\ ~Authorized) =>
           /\ running
           /\ Publishes(last.events) =
                  <<Publish(Caller, CallerCorr,
                            JsonDumps("Unauthorized Client"))>>
    /\ (/\ Request
        /\ (last.op = "on_request_data" \/ Authorized)
        /\ LastRequest.command \notin BoundRegistry) =>
           /\ running
           /\ Publishes(last.events) =
                  <<Publish(Caller, CallerCorr, JsonDumps("Unknown command"))>>

Raised == Request /\ Invocations # <<>> /\ Returns = <<>>

\* After a handler raised nothing was published or acknowledged and the
\* consume loop is over.
RaiseEndsLoop ==
    Raised =>
        /\ Publishes(last.events) = <<>>
        /\ Acks = <<>>
        /\ ~running

\* The client whose request made the handler raise does not leave its wait
\* (other than by a fault).
CallerStaysBlocked ==
    \A c \in Ids :
        (/\ Raised
         /\ c = Caller
         /\ pc[c] = "call"
         /\ corr_id[c] = CallerCorr
         /\ faults' = faults) => pc'[c] = "call"

\* C21 (handler failure is fatal to the loop, as claimed): when a registered
\* handler raises, no response is published, the message is not
\* acknowledged, the consume loop stops, and the client that sent the
\* request stays blocked forever.
C21_HandlerFailureFatal == []RaiseEndsLoop /\ [][CallerStaysBlocked]_vars

\* q is p with elements appended at its tail.
IsPrefix(p, q) == Len(p) <= Len(q) /\ SubSeq(q, 1, Len(p)) = p

\* C22 (wait queue entries leave only by promotion): a server step either
\* leaves the entries that were in the wait queue in place, or it is the
\* Release of the holder, which pops exactly the head and publishes
\* "Connected" to it; a Connect, a Release of a non-holder (a waiting
\* identity's own Release included) and a command or data request never
\* shorten or reorder the wait queue.
C22_LeaveByPromotion ==
    /\ (Control("Release") /\ Caller \in last.clients /\ last.queued # <<>>) =>
           /\ queued_clients = Tail(last.queued)
           /\ promoted = Head(last.queued)
           /\ \E i \in 1..Len(last.events) :
                  /\ last.events[i].type = "publish"
                  /\ last.events[i].to = Head(last.queued)
                  /\ last.events[i].body = "Connected"
    /\ ~(Control("Release") /\ Caller \in last.clients) =>
           IsPrefix(last.queued, queued_clients)

\* The holder has released with two identities waiting: the head was popped
\* and the other one stays.
C22_Witness ==
    /\ Control("Release")
    /\ Caller \in last.clients
    /\ Len(last.queued) = 2
    /\ Len(queued_clients) = 1
    /\ promoted = last.queued[1]

\* C23 (no barging, as claimed): a Connect grants the session to its
\* caller only when nobody waits in the wait queue.
C23_NoBarging ==
    (Control("Connect") /\ Caller \notin last.clients /\ Caller \in clients) =>
        last.queued = <<>>

\* C25 (promotion is observable by the waiter, as claimed): a send_request
\* that was parked and leaves its wait on the grant published by
\* next_in_queue returns "Connected".
C25_PromotionObserved ==
    [][\A c \in Ids :
          (/\ pc[c] = "send_request"
           /\ pc'[c] = "idle"
           /\ faults' = faults
           /\ callback_queue[c] # <<>>
           /\ Head(callback_queue[c]) = Msg(c, NoCorr, "Connected")) =>
              ret'[c] = "Connected"]_vars

\* ------------------------------------------------- the progress properties
\* The admission protocol with a running server and a healthy transport:
\* clients connect and release, the server handles the control messages,
\* no handler raises and nothing is interrupted.
LiveNext ==
    \/ callback
    \/ \E c \in Ids : send_request(c)
    \/ \E c \in Ids : release_connection(c)
    \/ \E c \in Ids : process_data_events(c)

\* An identity that was granted the session, directly (server.py 33) or by
\* promotion (server.py 79-84), sends Release.
HolderReleases(c) ==
    /\ (c \in clients \/ c = promoted)
    /\ release_connection(c)

\* Fair message processing: start_consuming (server.py 24) handles every
\* control message that is delivered, and a client blocked in
\* process_data_events (client.py 75) is given the messages on its reply
\* queue.  The last conjunct is the assumption that every identity granted
\* the session eventually sends Release.
Fairness ==
    /\ WF_vars(callback)
    /\ \A c \in Ids : WF_vars(process_data_events(c))
    /\ \A c \in Ids : SF_vars(HolderReleases(c))

LiveSpec == Init /\ [][LiveNext]_vars /\ Fairness

\* Identity c waits in the wait queue.
InQueue(c) == \E i \in 1..Len(queued_clients) : queued_clients[i] = c

\* No client can publish any more within MaxSends.
Exhausted == Drawn >= MaxSends

\* C24 (no starvation, as claimed): under fair message processing, with
\* every identity that was granted the session sending Release, an identity
\* in the wait queue eventually has left it and holds the session (as long
\* as clients can still publish).
C24_NoStarvation ==
    \A c \in Ids :
        InQueue(c) ~> ((c \in clients /\ ~InQueue(c)) \/ Exhausted)

\* C26 (release_connection terminates, as claimed): under fair message
\* processing a release_connection of the holder eventually returns.
C26_ReleaseTerminates ==
    \A c \in Ids :
        (pc[c] = "release_connection" /\ c \in clients) ~> (pc[c] = "idle")

=============================================================================
